---- MODULE Spec2Model ----
(***************************************************************************)
(* Cypher-to-SQL translation (src/src/cypher_to_sql.rs) and its caller     *)
(* (src/cypher_to_sql/convert_cypher.rs).                                  *)
(*                                                                         *)
(* A &str is modelled as a sequence of one-character strings.  Positions   *)
(* are 1-based here and 0-based in the source; Option<usize> None is 0.    *)
(***************************************************************************)
EXTENDS Integers, Sequences, FiniteSets, TLC

VARIABLES kind, node, pattern, where_clause, return_items, pc, result

vars == <<kind, node, pattern, where_clause, return_items, pc, result>>

----------------------------------------------------------------------------
(* Bounds of the input space.                                              *)

\* longest run of blanks put at a place where blanks are allowed
MaxWs == 1
\* most entries in a generated property map
MaxProps == 2
\* most items in a RETURN list
MaxItems == 2
\* longest unstructured pattern text
MaxRaw == 3

----------------------------------------------------------------------------
(* Characters and the std::str / char primitives the source calls.         *)

Digits == <<"0", "1", "2", "3", "4", "5", "6", "7", "8", "9">>

Upper == <<"A", "B", "C", "D", "E", "F", "G", "H", "I", "J", "K", "L", "M",
           "N", "O", "P", "Q", "R", "S", "T", "U", "V", "W", "X", "Y", "Z">>

Lower == <<"a", "b", "c", "d", "e", "f", "g", "h", "i", "j", "k", "l", "m",
           "n", "o", "p", "q", "r", "s", "t", "u", "v", "w", "x", "y", "z">>

Range(s) == {s[i] : i \in 1..Len(s)}

IsDigit(c) == c \in Range(Digits)

\* char::is_alphanumeric
is_alphanumeric(c) == c \in Range(Digits) \cup Range(Upper) \cup Range(Lower)

\* char::is_whitespace, as used by trim / trim_start
is_whitespace(c) == c \in {" ", "\t", "\n", "\r"}

\* the take_while predicate of extract_first_label / extract_first_variable
IsIdentChar(c) == is_alphanumeric(c) \/ c = "_"

to_ascii_lowercase(c) ==
    IF \E i \in 1..26 : Upper[i] = c
    THEN Lower[CHOOSE i \in 1..26 : Upper[i] = c]
    ELSE c

\* str::eq_ignore_ascii_case
eq_ignore_ascii_case(s, t) ==
    /\ Len(s) = Len(t)
    /\ \A i \in 1..Len(s) : to_ascii_lowercase(s[i]) = to_ascii_lowercase(t[i])

\* str::find(char): position of the first occurrence, 0 for None
find(s, c) ==
    IF \E i \in 1..Len(s) : s[i] = c
    THEN CHOOSE i \in 1..Len(s) : s[i] = c /\ \A j \in 1..(i - 1) : s[j] # c
    ELSE 0

\* str::rfind(char): position of the last occurrence, 0 for None
rfind(s, c) ==
    IF \E i \in 1..Len(s) : s[i] = c
    THEN CHOOSE i \in 1..Len(s) : s[i] = c /\ \A j \in (i + 1)..Len(s) : s[j] # c
    ELSE 0

\* &s[from..]: the text after position `from` (1-based, exclusive)
Suffix(s, from) == SubSeq(s, from + 1, Len(s))

trim_start(s) ==
    IF \A i \in 1..Len(s) : is_whitespace(s[i])
    THEN << >>
    ELSE LET f == CHOOSE i \in 1..Len(s) :
                      /\ ~is_whitespace(s[i])
                      /\ \A j \in 1..(i - 1) : is_whitespace(s[j])
         IN  SubSeq(s, f, Len(s))

trim_end(s) ==
    IF \A i \in 1..Len(s) : is_whitespace(s[i])
    THEN << >>
    ELSE LET l == CHOOSE i \in 1..Len(s) :
                      /\ ~is_whitespace(s[i])
                      /\ \A j \in (i + 1)..Len(s) : is_whitespace(s[j])
         IN  SubSeq(s, 1, l)

trim(s) == trim_end(trim_start(s))

\* .chars().take_while(|c| c.is_alphanumeric() || *c == '_').collect()
take_while_ident(s) ==
    IF \A i \in 1..Len(s) : IsIdentChar(s[i])
    THEN s
    ELSE LET f == CHOOSE i \in 1..Len(s) :
                      /\ ~IsIdentChar(s[i])
                      /\ \A j \in 1..(i - 1) : IsIdentChar(s[j])
         IN  SubSeq(s, 1, f - 1)

\* str::split(char): always at least one piece, pieces may be empty
RECURSIVE split(_, _)
split(s, c) ==
    LET i == find(s, c)
    IN  IF i = 0 THEN <<s>>
        ELSE <<SubSeq(s, 1, i - 1)>> \o split(Suffix(s, i), c)

starts_with(s, c) == Len(s) >= 1 /\ s[1] = c

ends_with(s, c) == Len(s) >= 1 /\ s[Len(s)] = c

----------------------------------------------------------------------------
(* str::parse::<i64>() followed by i64::to_string().  The value is kept as *)
(* its decimal text so that the full 64-bit range is decided exactly.      *)

I64MaxDigits == <<"9", "2", "2", "3", "3", "7", "2", "0", "3", "6",
                  "8", "5", "4", "7", "7", "5", "8", "0", "7">>

I64MinDigits == <<"9", "2", "2", "3", "3", "7", "2", "0", "3", "6",
                  "8", "5", "4", "7", "7", "5", "8", "0", "8">>

DigitVal(c) == (CHOOSE i \in 1..10 : Digits[i] = c) - 1

\* digits without leading zeros; "0" for zero
StripZeros(d) ==
    IF \A i \in 1..Len(d) : d[i] = "0"
    THEN <<"0">>
    ELSE LET f == CHOOSE i \in 1..Len(d) :
                      d[i] # "0" /\ \A j \in 1..(i - 1) : d[j] = "0"
         IN  SubSeq(d, f, Len(d))

\* a <= b for digit strings without leading zeros
DigitsLeq(a, b) ==
    \/ Len(a) < Len(b)
    \/ /\ Len(a) = Len(b)
       /\ \/ a = b
          \/ \E i \in 1..Len(a) :
                /\ DigitVal(a[i]) < DigitVal(b[i])
                /\ \A j \in 1..(i - 1) : a[j] = b[j]

NotANumber == [ok |-> FALSE, text |-> << >>]

\* value.parse::<i64>() then num.to_string(): [ok, text]
parse_i64(s) ==
    LET neg  == starts_with(s, "-")
        body == IF starts_with(s, "-") \/ starts_with(s, "+") THEN Tail(s) ELSE s
        mag  == StripZeros(body)
    IN  IF body = << >> \/ \E i \in 1..Len(body) : ~IsDigit(body[i])
        THEN NotANumber
        ELSE IF ~DigitsLeq(mag, IF neg THEN I64MinDigits ELSE I64MaxDigits)
        THEN NotANumber
        ELSE [ok   |-> TRUE,
              text |-> IF neg /\ mag # <<"0">> THEN <<"-">> \o mag ELSE mag]

----------------------------------------------------------------------------
(* The sqlparser AST, reduced to the fields the translation sets.          *)

\* Option<Expr>::None, Option<TableAlias>::None
NoExpr == [tag |-> "None", text |-> << >>]

NoAlias == << >>

\* Expr::Value(Value::SingleQuotedString(s))
SingleQuotedString(s) == [tag |-> "SingleQuotedString", text |-> s]

\* Expr::Value(Value::Boolean(b))
Boolean(b) == [tag |-> "Boolean", text |-> IF b THEN <<"true">> ELSE <<"false">>]

\* Expr::Value(Value::Number(text, false))
Number(t) == [tag |-> "Number", text |-> t]

\* Expr::Identifier(Ident::new(s))
Identifier(s) == [tag |-> "Identifier", text |-> s]

\* Expr::CompoundIdentifier(parts), kept as its dotted text
CompoundIdentifier(s) == [tag |-> "CompoundIdentifier", text |-> s]

\* SelectItem::UnnamedExpr(e)
UnnamedExpr(e) == [item |-> "UnnamedExpr", expr |-> e]

\* SelectItem::Wildcard(WildcardAdditionalOptions::default())
Wildcard == [item |-> "Wildcard", expr |-> NoExpr]

NoStatement == [type |-> "None"]

Ok(stmt) == [kind |-> "Ok", stmt |-> stmt, msg |-> ""]

Err(msg) == [kind |-> "Err", stmt |-> NoStatement, msg |-> msg]

\* the thread unwinds: no Result reaches the caller
Panic == [kind |-> "Panic", stmt |-> NoStatement, msg |-> "byte index out of range"]

----------------------------------------------------------------------------
(* src/src/cypher_to_sql.rs                                                *)

ValueOk(e) == [kind |-> "Ok", expr |-> e]

ValuePanic == [kind |-> "Panic", expr |-> NoExpr]

parse_simple_value(value0) ==
    LET value == trim(value0)
    IN  IF \/ starts_with(value, "'") /\ ends_with(value, "'")
           \/ starts_with(value, "\"") /\ ends_with(value, "\"")
        THEN \* &value[1..value.len() - 1] panics when 1 > value.len() - 1
             IF Len(value) < 2
             THEN ValuePanic
             ELSE ValueOk(SingleQuotedString(SubSeq(value, 2, Len(value) - 1)))
        ELSE IF eq_ignore_ascii_case(value, <<"t", "r", "u", "e">>)
        THEN ValueOk(Boolean(TRUE))
        ELSE IF eq_ignore_ascii_case(value, <<"f", "a", "l", "s", "e">>)
        THEN ValueOk(Boolean(FALSE))
        ELSE IF parse_i64(value).ok
        THEN ValueOk(Number(parse_i64(value).text))
        ELSE ValueOk(Identifier(value))

PropsOk(columns, values) ==
    [kind |-> "Ok", columns |-> columns, values |-> values, msg |-> ""]

PropsErr(msg) ==
    [kind |-> "Err", columns |-> << >>, values |-> << >>, msg |-> msg]

PropsPanic ==
    [kind |-> "Panic", columns |-> << >>, values |-> << >>, msg |-> ""]

\* pair.split(':').map(|s| s.trim()).collect()
pair_parts(pair) ==
    LET raw == split(pair, ":")
    IN  [i \in 1..Len(raw) |-> trim(raw[i])]

\* the loop with the column pushed before the `parts.len() != 2` test
RECURSIVE extract_pairs_push_first(_, _, _, _)
extract_pairs_push_first(pairs, i, columns, values) ==
    IF i > Len(pairs)
    THEN PropsOk(columns, values)
    ELSE LET parts == pair_parts(pairs[i])
             key   == trim(parts[1])
         IN  IF Len(parts) # 2
             THEN extract_pairs_push_first(pairs, i + 1, Append(columns, key), values)
             ELSE LET expr == parse_simple_value(trim(parts[2]))
                  IN  IF expr.kind = "Panic"
                      THEN PropsPanic
                      ELSE extract_pairs_push_first(pairs, i + 1,
                                                    Append(columns, key),
                                                    Append(values, expr.expr))

\* the `for pair in props_str.split(',')` loop, from pair i on
RECURSIVE extract_pairs(_, _, _, _)
extract_pairs(pairs, i, columns, values) ==
    IF i > Len(pairs)
    THEN PropsOk(columns, values)
    ELSE LET parts == pair_parts(pairs[i])
         IN  IF Len(parts) # 2
             THEN extract_pairs(pairs, i + 1, columns, values)
             ELSE LET key  == trim(parts[1])
                      expr == parse_simple_value(trim(parts[2]))
                  IN  IF expr.kind = "Panic"
                      THEN PropsPanic
                      ELSE extract_pairs(pairs, i + 1,
                                         Append(columns, key),
                                         Append(values, expr.expr))

extract_properties(p) ==
    LET start == find(p, "{")
        end   == rfind(p, "}")
    IN  IF start = 0 THEN PropsErr("No properties found (missing '{')")
        ELSE IF end = 0 THEN PropsErr("No properties found (missing '}')")
        ELSE IF start >= end THEN PropsErr("Invalid property syntax")
        ELSE LET props_str == trim(SubSeq(p, start + 1, end - 1))
             IN  IF props_str = << >>
                 THEN PropsOk(<< >>, << >>)
                 ELSE extract_pairs(split(props_str, ","), 1, << >>, << >>)

LabelOk(l) == [kind |-> "Ok", label |-> l, msg |-> ""]

LabelErr(msg) == [kind |-> "Err", label |-> << >>, msg |-> msg]

extract_first_label(p) ==
    LET colon_pos == find(p, ":")
    IN  IF colon_pos # 0
        THEN LET after_colon == trim_start(Suffix(p, colon_pos))
                 label       == take_while_ident(after_colon)
             IN  IF label = << >>
                 THEN LabelErr("No label found after ':'")
                 ELSE LabelOk(label)
        ELSE LabelErr("No label found in pattern (missing ':')")

\* extract_first_variable without the trim_start after the parenthesis
extract_first_variable_no_trim(p) ==
    LET paren_pos == find(p, "(")
    IN  IF paren_pos # 0
        THEN LET var == take_while_ident(Suffix(p, paren_pos))
             IN  IF var = << >> THEN NoAlias ELSE var
        ELSE NoAlias

\* Option<String>: NoAlias for None
extract_first_variable(p) ==
    LET paren_pos == find(p, "(")
    IN  IF paren_pos # 0
        THEN LET after_paren == trim_start(Suffix(p, paren_pos))
                 var         == take_while_ident(after_paren)
             IN  IF var = << >> THEN NoAlias ELSE var
        ELSE NoAlias

convert_return_item(item) ==
    IF item.item = "UnnamedExpr" /\ item.expr.tag = "Identifier"
    THEN Wildcard
    ELSE item

convert_return_items(items) ==
    [i \in 1..Len(items) |-> convert_return_item(items[i])]

\* Select { projection, from, selection, .. }; the other fields are constants
create_select(projection, from, selection) ==
    [type |-> "Query", projection |-> projection, from |-> from,
     selection |-> selection]

\* TableWithJoins { relation: TableFactor::Table { name, alias, .. }, joins: vec![] }
TableWithJoins(name, alias) == [name |-> name, alias |-> alias, joins |-> << >>]

cypher_to_sql(p, wc, items) ==
    LET table_name  == extract_first_label(p)
        table_alias == extract_first_variable(p)
    IN  IF table_name.kind = "Err"
        THEN Err(table_name.msg)
        ELSE Ok(create_select(convert_return_items(items),
                              <<TableWithJoins(table_name.label, table_alias)>>,
                              wc))

\* Insert { table, columns, source: Values { rows: vec![values] }, .. }
Insert(table, columns, values) ==
    [type |-> "Insert", table |-> table, columns |-> columns, rows |-> <<values>>]

\* cypher_create_to_sql without the `columns.is_empty()` test
cypher_create_to_sql_any_columns(p) ==
    LET table_name == extract_first_label(p)
        props      == extract_properties(p)
    IN  IF table_name.kind = "Err" THEN Err(table_name.msg)
        ELSE IF props.kind = "Panic" THEN Panic
        ELSE IF props.kind = "Err" THEN Err(props.msg)
        ELSE Ok(Insert(table_name.label, props.columns, props.values))

cypher_create_to_sql(p) ==
    LET table_name == extract_first_label(p)
        props      == extract_properties(p)
    IN  IF table_name.kind = "Err" THEN Err(table_name.msg)
        ELSE IF props.kind = "Panic" THEN Panic
        ELSE IF props.kind = "Err" THEN Err(props.msg)
        ELSE IF props.columns = << >>
        THEN Err("No properties found in CREATE statement")
        ELSE Ok(Insert(table_name.label, props.columns, props.values))

----------------------------------------------------------------------------
(* Inputs: the statements convert_cypher_to_sql hands to the translation.  *)
(* A pattern text is either rendered from a described node pattern, so     *)
(* that what the text was meant to say is known, or is an arbitrary short  *)
(* text.  The translation reads the text only.                             *)

\* runs of blanks of length 0..MaxWs
Ws == UNION {[1..n -> {" "}] : n \in 0..MaxWs}

Vars == {<< >>, <<"n">>}

Labels == {<<"P">>, <<"Q", "_", "1">>}

\* the key declared at position i of a property map: k1, k2, ...
Key(i) == <<"k", Digits[i + 1]>>

QuotedA     == <<"'", "a", "'">>
DQuotedA    == <<"\"", "a", "\"">>
QuotedComma == <<"'", "a", ",", "b", "'">>
QuotedColon == <<"'", "a", ":", "b", "'">>
LoneQuote   == <<"'">>
TrueText    == <<"T", "r", "u", "e">>
FalseText   == <<"f", "a", "l", "s", "e">>
IntText     == <<"3", "0">>
SignedText  == <<"+", "0", "7">>
FloatText   == <<"3", ".", "5">>
NameText    == <<"x">>

\* property values as written in the pattern
Values == {QuotedA, DQuotedA, QuotedComma, QuotedColon, LoneQuote,
           TrueText, FalseText, IntText, SignedText, I64MinDigits,
           FloatText, NameText}

\* one entry of a property map: `key: value`, `key` alone, `key: value: value`
Entries == [shape : {"pair"}, value : Values]
           \cup {[shape |-> "bare", value |-> << >>],
                 [shape |-> "triple", value |-> IntText]}

PropLists == UNION {[1..n -> Entries] : n \in 0..MaxProps}

\* what may follow the node: nothing, or an edge to a second node
Edge == <<"-", "[", ":", "K", "]", "-", ">", "(", "b", ":", "Q", ")">>

Tails == {<< >>, Edge}

RawAlphabet == {"(", ")", ":", "{", "}", ",", "'", "k", " "}

RawTexts == UNION {[1..n -> RawAlphabet] : n \in 0..MaxRaw}

RenderEntry(e, i, w) ==
    IF e.shape = "bare" THEN w \o Key(i) \o w
    ELSE IF e.shape = "triple"
    THEN w \o Key(i) \o w \o <<":">> \o w \o e.value \o <<":">> \o e.value \o w
    ELSE w \o Key(i) \o w \o <<":">> \o w \o e.value \o w

RECURSIVE RenderEntries(_, _, _)
RenderEntries(props, i, w) ==
    IF i > Len(props) THEN << >>
    ELSE (IF i = 1 THEN << >> ELSE <<",">>)
         \o RenderEntry(props[i], i, w) \o RenderEntries(props, i + 1, w)

RenderMap(n) ==
    IF n.map = "absent" THEN << >>
    ELSE IF n.props = << >> THEN <<"{">> \o n.pws \o <<"}">>
    ELSE <<"{">> \o RenderEntries(n.props, 1, n.pws) \o <<"}">>

\* ( ws var ws [: ws Label] ws [{ entries }] ) tail
Render(n) ==
    IF n.form = "raw" THEN n.text
    ELSE <<"(">> \o n.ws[1] \o n.var \o n.ws[2]
         \o (IF n.label = << >> THEN << >> ELSE <<":">> \o n.ws[3] \o n.label)
         \o n.ws[4] \o RenderMap(n) \o <<")">> \o n.tail

Node(ws, var, label, map, pws, props, tail) ==
    [form |-> "node", ws |-> ws, var |-> var, label |-> label, map |-> map,
     pws |-> pws, props |-> props, tail |-> tail, text |-> << >>]

RawNode(text) ==
    [form |-> "raw", ws |-> <<<< >>, << >>, << >>, << >>>>, var |-> << >>,
     label |-> << >>, map |-> "absent", pws |-> << >>, props |-> << >>,
     tail |-> << >>, text |-> text]

\* MATCH patterns: blanks vary independently around variable, colon and label;
\* a node without a label comes with and without a property map
QueryNodes ==
    {Node(<<w1, w2, w3, w4>>, v, l, "absent", << >>, << >>, t) :
        w1 \in Ws, w2 \in Ws, w3 \in Ws, w4 \in Ws, v \in Vars,
        l \in Labels, t \in Tails}
    \cup
    {Node(<<w1, w2, << >>, w4>>, v, << >>, m, << >>,
          IF m = "absent" THEN << >> ELSE <<[shape |-> "pair", value |-> IntText]>>,
          t) :
        w1 \in Ws, w2 \in Ws, w4 \in Ws, v \in Vars,
        m \in {"absent", "present"}, t \in Tails}

\* CREATE patterns: one run of blanks used throughout, property maps vary;
\* a node without a property map comes with and without an edge after it
CreateNodes ==
    {Node(<<w, w, w, w>>, v, l, "present", w, ps, << >>) :
        w \in Ws, v \in Vars, l \in Labels \cup {<< >>}, ps \in PropLists}
    \cup
    {Node(<<w, w, w, w>>, v, l, "absent", << >>, << >>, t) :
        w \in Ws, v \in Vars, l \in Labels \cup {<< >>}, t \in Tails}
    \cup
    {RawNode(x) : x \in RawTexts}

\* Option<Expr> given as the WHERE clause
Wheres == {NoExpr, [tag |-> "BinaryOp", text |-> <<"n.age > 30">>]}

\* RETURN items: n, m, n.name, *
Items == {UnnamedExpr(Identifier(<<"n">>)), UnnamedExpr(Identifier(<<"m">>)),
          UnnamedExpr(CompoundIdentifier(<<"n", ".", "name">>)), Wildcard}

ItemLists == UNION {[1..n -> Items] : n \in 0..MaxItems}

----------------------------------------------------------------------------
(* src/cypher_to_sql/convert_cypher.rs: one parsed statement is converted. *)

NoResult == [kind |-> "None", stmt |-> NoStatement, msg |-> ""]

Init ==
    /\ pc = "parsed"
    /\ result = NoResult
    /\ \/ /\ kind = "CypherQuery"
          /\ node \in QueryNodes
          /\ where_clause \in Wheres
          /\ return_items \in ItemLists
       \/ /\ kind = "CypherCreate"
          /\ node \in CreateNodes
          /\ where_clause = NoExpr
          /\ return_items = << >>
    /\ pattern = Render(node)

\* where a call leaves the caller: with a Result, or unwound by a panic
After(r) == IF r.kind = "Panic" THEN "panicked" ELSE "done"

\* Some(Statement::CypherQuery { pattern, where_clause, return_items })
ConvertCypherQuery ==
    /\ pc = "parsed"
    /\ kind = "CypherQuery"
    /\ result' = cypher_to_sql(pattern, where_clause, return_items)
    /\ pc' = After(result')
    /\ UNCHANGED <<kind, node, pattern, where_clause, return_items>>

\* Some(Statement::CypherCreate { pattern })
ConvertCypherCreate ==
    /\ pc = "parsed"
    /\ kind = "CypherCreate"
    /\ result' = cypher_create_to_sql(pattern)
    /\ pc' = After(result')
    /\ UNCHANGED <<kind, node, pattern, where_clause, return_items>>

Next == ConvertCypherQuery \/ ConvertCypherCreate

Spec == Init /\ [][Next]_vars

----------------------------------------------------------------------------
(* Properties.                                                             *)

Returned == pc # "parsed"

IsCreate == kind = "CypherCreate" /\ Returned

IsQuery == kind = "CypherQuery" /\ Returned

HasChar(s, c) == \E i \in 1..Len(s) : s[i] = c

\* (var:Label ...) with a label and nothing after the node
Labelled(n) == n.form = "node" /\ n.label # << >> /\ n.tail = << >>

\* a written value that is a complete literal: not an unterminated quote
IsLiteral(v) == v # LoneQuote

\* (var:Label {k1: v1, ..., kn: vn}) with n >= 1 and nothing after the node
WellFormedCreate(n) ==
    /\ n.form = "node"
    /\ n.label # << >>
    /\ n.tail = << >>
    /\ n.map = "present"
    /\ Len(n.props) >= 1
    /\ \A i \in 1..Len(n.props) :
          n.props[i].shape = "pair" /\ IsLiteral(n.props[i].value)

DeclaredKeys(n) == [i \in 1..Len(n.props) |-> Key(i)]

CoercedValues(n) ==
    [i \in 1..Len(n.props) |-> parse_simple_value(n.props[i].value).expr]

\* C1: a well-formed (var:Label {k1: v1, ..., kn: vn}), string values with
\* ',' or ':' inside the quotes included, is translated to an Insert into
\* Label with columns k1..kn in order and one row of the coerced values.
C1_InsertMatchesPattern ==
    (IsCreate /\ WellFormedCreate(node))
        => result = Ok(Insert(node.label, DeclaredKeys(node), CoercedValues(node)))

MissingLabelMsgs == {"No label found in pattern (missing ':')",
                     "No label found after ':'"}

\* C2: a pattern without a label, such as (n) or (n {k1: 30}), is refused
\* with the missing-label error by both translations.
C2_NoLabelIsRefused ==
    (Returned /\ node.form = "node" /\ node.label = << >> /\ node.tail = << >>)
        => (result.kind = "Err" /\ result.msg \in MissingLabelMsgs)

\* C3: a property map holding an entry that is not exactly `key : value`
\* makes the create translation fail; the entry is never dropped while the
\* other entries become an Insert.  Stated for labelled single nodes, where
\* nothing else is wrong with the pattern.
C3_MalformedPairIsRefused ==
    (/\ IsCreate
     /\ Labelled(node)
     /\ node.map = "present"
     /\ \E i \in 1..Len(node.props) : node.props[i].shape # "pair"
     /\ \A i \in 1..Len(node.props) : IsLiteral(node.props[i].value))
        => result.kind = "Err"

\* a bare reference to the pattern's own variable
RefersToNode(item) ==
    /\ node.var # << >>
    /\ item = UnnamedExpr(Identifier(node.var))

\* C4: the projection has the length and order of the return items; item i
\* is a wildcard exactly when return item i is a bare reference to the
\* pattern's own variable or already a wildcard, and is unchanged otherwise.
\* Stated for the Selects of labelled single nodes.
C4_ProjectionFollowsReturnItems ==
    (IsQuery /\ Labelled(node) /\ result.kind = "Ok")
        => /\ Len(result.stmt.projection) = Len(return_items)
           /\ \A i \in 1..Len(return_items) :
                 IF RefersToNode(return_items[i]) \/ return_items[i] = Wildcard
                 THEN result.stmt.projection[i] = Wildcard
                 ELSE result.stmt.projection[i] = return_items[i]

\* Value::Float of the specification's coercion
Float(t) == [tag |-> "Float", text |-> t]

\* a decimal floating-point literal: [sign] digits [. digits], one '.' at most
IsFloatText(v) ==
    LET body == IF starts_with(v, "-") \/ starts_with(v, "+") THEN Tail(v) ELSE v
    IN  /\ \E i \in 1..Len(body) : IsDigit(body[i])
        /\ \A i \in 1..Len(body) : IsDigit(body[i]) \/ body[i] = "."
        /\ Cardinality({i \in 1..Len(body) : body[i] = "."}) <= 1

IsQuotedBy(v, q) == Len(v) >= 2 /\ starts_with(v, q) /\ ends_with(v, q)

\* the coercion order as claimed: String, Boolean, Integer, Float, Identifier
ClaimedCoercion(v) ==
    IF IsQuotedBy(v, "'") \/ IsQuotedBy(v, "\"")
    THEN SingleQuotedString(SubSeq(v, 2, Len(v) - 1))
    ELSE IF eq_ignore_ascii_case(v, <<"t", "r", "u", "e">>) THEN Boolean(TRUE)
    ELSE IF eq_ignore_ascii_case(v, <<"f", "a", "l", "s", "e">>) THEN Boolean(FALSE)
    ELSE IF parse_i64(v).ok THEN Number(parse_i64(v).text)
    ELSE IF IsFloatText(v) THEN Float(v)
    ELSE Identifier(v)

\* a create pattern whose map is the single pair k1: v, v free of ',' and ':'
SingleValue(n) ==
    /\ WellFormedCreate(n)
    /\ Len(n.props) = 1
    /\ ~HasChar(n.props[1].value, ",")
    /\ ~HasChar(n.props[1].value, ":")

\* C5: a literal is coerced by the first rule that matches, in the order
\* quoted -> String, true/false -> Boolean, i64 -> Integer, floating point
\* -> Float, anything else -> identifier reference.
C5_CoercionOrder ==
    (IsCreate /\ SingleValue(node))
        => /\ result.kind = "Ok"
           /\ result.stmt.rows[1] = <<ClaimedCoercion(node.props[1].value)>>

\* C6: every call returns Ok(statement) or Err(message) to its caller; no
\* pattern, a property value of one quote character included, makes the
\* translation panic.  Stated for labelled single nodes and for raw texts.
C6_AlwaysReturnsAResult ==
    (Returned /\ (Labelled(node) \/ node.form = "raw"))
        => (pc = "done" /\ result.kind \in {"Ok", "Err"})

NoPropertiesMsgs == {"No properties found in CREATE statement",
                     "No properties found (missing '{')"}

\* a labelled create pattern whose property map is empty, blank or absent
EmptyOrAbsentMap(n) ==
    /\ n.form = "node"
    /\ n.label # << >>
    /\ n.map = "absent" \/ n.props = << >>

\* C7: a labelled create pattern whose property map is empty ({} or only
\* blanks) or absent gets the no-properties error and never an Insert.
C7_NoPropertiesIsRefused ==
    (IsCreate /\ EmptyOrAbsentMap(node))
        => (result.kind = "Err" /\ result.msg \in NoPropertiesMsgs)

C7_Witness ==
    /\ IsCreate
    /\ EmptyOrAbsentMap(node)
    /\ node.map = "present"
    /\ node.pws # << >>
    /\ result.msg = "No properties found in CREATE statement"

\* ( [var] : Label ) with any blanks, no property map, nothing after the node
SingleNode(n) ==
    /\ n.form = "node"
    /\ n.label # << >>
    /\ n.map = "absent"
    /\ n.tail = << >>

\* C8: for ( [var] : Label ) with any blanks around variable, colon and label
\* the Select has exactly one FROM table, named Label, aliased var when a
\* variable is written and not aliased otherwise, and its WHERE is the given
\* filter expression.
C8_SelectFromLabel ==
    (IsQuery /\ SingleNode(node))
        => /\ result.kind = "Ok"
           /\ result.stmt.type = "Query"
           /\ Len(result.stmt.from) = 1
           /\ result.stmt.from[1].name = node.label
           /\ result.stmt.from[1].alias
                 = (IF node.var = << >> THEN NoAlias ELSE node.var)
           /\ result.stmt.from[1].joins = << >>
           /\ result.stmt.selection = where_clause

C8_Witness ==
    /\ IsQuery
    /\ SingleNode(node)
    /\ \A i \in 1..4 : node.ws[i] # << >>
    /\ node.var = <<"n">>
    /\ node.label = <<"Q", "_", "1">>
    /\ where_clause # NoExpr
    /\ result.kind = "Ok"
    /\ result.stmt.from[1].alias = <<"n">>

\* C9: a pattern with a relationship edge or a second node is refused; no
\* statement is built from the first node alone.  Stated for a labelled
\* first node with a variable.
C9_EdgeIsRefused ==
    (/\ Returned
     /\ node.form = "node"
     /\ node.label # << >>
     /\ node.var # << >>
     /\ node.tail # << >>)
        => result.kind = "Err"

\* C10: an Insert returned for any pattern, well-formed or not, has at least
\* one column and exactly one row, the row as long as the column list;
\* extract_properties never returns lists of different lengths.
C10_RowMatchesColumns ==
    IsCreate
        => /\ result.kind = "Ok"
              => /\ result.stmt.type = "Insert"
                 /\ Len(result.stmt.columns) >= 1
                 /\ Len(result.stmt.rows) = 1
                 /\ Len(result.stmt.rows[1]) = Len(result.stmt.columns)
           /\ Len(extract_properties(pattern).values)
                 = Len(extract_properties(pattern).columns)

C10_Witness ==
    /\ IsCreate
    /\ node.form = "node"
    /\ Len(node.props) = 2
    /\ node.props[1].shape = "bare"
    /\ result.kind = "Ok"
    /\ Len(result.stmt.columns) = 1
    /\ Len(result.stmt.rows[1]) = 1

====
